---- MODULE Spec2Model ----
(***************************************************************************)
(* Route optimisation engine of rotastc (src/route_generator.py):          *)
(* DistanceMatrix, RouteOptimizer (nearest-neighbor + 2-opt) and           *)
(* RouteGenerator (get_distance_matrix, optimize_route,                    *)
(* open_route_in_browser).                                                 *)
(*                                                                         *)
(* Five specifications:                                                    *)
(*   SpecOpt     the RouteOptimizer methods called on a given matrix:      *)
(*               nearest_neighbor(start), then two_opt on its result,      *)
(*               then two_opt again on two_opt's own output; optimize;     *)
(*               two_opt on a given index sequence;                        *)
(*   SpecOptFair the calls of optimize and of two_opt on a sequence,       *)
(*               with weak fairness of the next statement;                 *)
(*   Spec        RouteGenerator.optimize_route / get_distance_matrix       *)
(*               against a deterministic mock provider;                    *)
(*   SpecLinks   RouteGenerator.open_route_in_browser: the links built     *)
(*               from a list of addresses, in the given order or in the    *)
(*               order optimize_route returns;                             *)
(*   SpecTotals  calculate_route_distance / calculate_route_duration on    *)
(*               index sequences and on their sub-segments.                *)
(*                                                                         *)
(* Indices of locations and positions in a route are 0-based as in the     *)
(* source; TLA+ sequences are 1-based, so At(s, p) reads position p.       *)
(***************************************************************************)
EXTENDS Integers, Sequences, FiniteSets, TLC

\* ------------------------------------------------------------------ bounds
\* largest number of addresses given to optimize_route
MaxAddr == 11
\* longest origins / destinations list given to get_distance_matrix directly
MaxLoc == 21
\* largest finite weight of the exhaustively enumerated matrices
MaxW == 3
\* largest number of locations of the mock-provider matrices of SpecOpt
MaxN == 4
\* modulus of the mock provider's distance formula (its weights are 1..MockMod)
MockMod == 5
\* explicit max_iterations arguments tried: 1..MaxIter, and the default
MaxIter == 1
\* largest number of addresses given to open_route_in_browser
MaxStops == 28
\* number of locations of the tables of SpecTotals
TotalsLocs == 3
\* longest index sequence given to calculate_route_distance / _duration
MaxRouteLen == 4
\* longest sequence given to two_opt directly
MaxInputLen == 5

\* ------------------------------------------------------- program constants
\* float('inf'), the weight of an unreachable pair (a sentinel below every weight)
Inf == -1
\* two_opt returns routes of fewer than 4 positions unchanged
TwoOptMinRoute == 4
\* default of two_opt's max_iterations parameter
DefaultMaxIterations == 1000
\* optimize applies two_opt only to a matrix of at least 4 locations
OptimizeMinSize == 4

\* the provider's cap on origins x destinations of one request ("<= 100")
ElementCap == 100
\* MAX_BATCH_SIZE, the block size of batched acquisition
MAX_BATCH_SIZE == 10
\* time.sleep(0.2) between block requests, in milliseconds
SleepMs == 200
\* self.fixed_start, the depot; a location string is modelled by a number, and
\* the address record number k formats to the location k
FixedStart == 0

\* what a read outside a list yields here: Python raises IndexError there
Missing == Inf - 1

\* ---------------------------------------------------------- float helpers
\* a <= b in the place of a < b
FLtOrEqual(a, b) == IF b = Inf THEN TRUE ELSE IF a = Inf THEN FALSE ELSE a <= b
\* a < b on weights (non-negative numbers or inf)
FLt(a, b) == IF a = Inf THEN FALSE ELSE IF b = Inf THEN TRUE ELSE a < b
\* a + b on weights
FAdd(a, b) == IF a = Inf \/ b = Inf THEN Inf ELSE a + b
\* a - b on weights: finite, +inf, -inf or nan (inf - inf)
FSub(a, b) ==
  IF a = Inf /\ b = Inf THEN [k |-> "nan", v |-> 0]
  ELSE IF a = Inf THEN [k |-> "inf", v |-> 0]
  ELSE IF b = Inf THEN [k |-> "ninf", v |-> 0]
  ELSE [k |-> "fin", v |-> a - b]
\* x >= 0 in the place of x > 0
FPositiveOrZero(x) == x.k = "inf" \/ (x.k = "fin" /\ x.v >= 0)
\* x > 0 on a difference of weights
FPositive(x) == x.k = "inf" \/ (x.k = "fin" /\ x.v > 0)

\* ------------------------------------------------------- sequence helpers
At(s, p) == s[p + 1]
Last(s) == s[Len(s)]
\* s[i:j+1][::-1] spliced back in: positions i..j reversed
ReverseSegment(s, i, j) ==
  [p \in 1..Len(s) |-> IF (p - 1) \in i..j THEN At(s, i + j - (p - 1)) ELSE s[p]]
Count(s, x) == Cardinality({p \in DOMAIN s : s[p] = x})

VARIABLES
  pc,              \* position of the running call
  caller,          \* the method the running call belongs to
  dm,              \* DistanceMatrix: [n, dist, dur]
  start_idx,       \* nearest_neighbor's start_idx
  max_iterations,  \* two_opt's max_iterations
  visited,         \* nearest_neighbor: visited[j]
  route,           \* the route under construction / under 2-opt
  current,         \* nearest_neighbor: current
  nn_iter,         \* nearest_neighbor: iterations of the outer loop done
  nn_out,          \* what nearest_neighbor returned
  initial_route,   \* two_opt's argument
  improved,        \* two_opt: improved
  iterations,      \* two_opt: iterations
  runs,            \* completed two_opt calls: [input, output, term, passes]
  optimize_out,    \* what RouteOptimizer.optimize returned
  addresses,       \* optimize_route's addresses argument
  use_two_opt,     \* optimize_route's use_two_opt argument
  provider,        \* the mock provider: [seed, failed, fault]
  origins,         \* get_distance_matrix's origins argument
  destinations,    \* get_distance_matrix's destinations argument
  batch_i,         \* get_distance_matrix: i of the origin-block loop
  batch_j,         \* get_distance_matrix: j of the destination-block loop
  batch_num,       \* get_distance_matrix: batch_num
  row_data,        \* get_distance_matrix: row_data
  all_rows,        \* get_distance_matrix: all_rows
  log,             \* provider requests and sleeps, in the order they happened
  exc,             \* str(e) of the exception get_distance_matrix caught
  google_matrix,   \* what get_distance_matrix returned
  route_indices,   \* optimize_route: route_indices
  result,          \* what optimize_route returned
  optimize,        \* open_route_in_browser's optimize argument
  ordered_addresses,   \* open_route_in_browser: ordered_addresses
  formatted_addresses, \* open_route_in_browser: formatted_addresses (the stops)
  chunks,          \* open_route_in_browser: chunks
  chunk_idx,       \* open_route_in_browser: idx of the loop over chunks
  urls,            \* open_route_in_browser: urls
  opened,          \* the urls given to webbrowser.open, in the order of the calls
  returned,        \* what open_route_in_browser returned
  segments,        \* contiguous sub-segments of route, each sharing its end node
                   \* with the start of the next
  totals           \* calculate_route_distance / _duration of route and of segments

optVars == <<dm, start_idx, max_iterations, visited, route, current, nn_iter,
             nn_out, initial_route, improved, iterations, runs, optimize_out>>
pipeVars == <<addresses, use_two_opt, provider, origins, destinations, batch_i,
              batch_j, batch_num, row_data, all_rows, log, exc, google_matrix,
              route_indices, result>>
linkVars == <<optimize, ordered_addresses, formatted_addresses, chunks, chunk_idx,
              urls, opened, returned>>
totalVars == <<segments, totals>>
vars == <<pc, caller, optVars, pipeVars, linkVars, totalVars>>

\* --------------------------------------------------------- DistanceMatrix
\* DistanceMatrix.distance(i, j): _distance_matrix[i][j]
Distance(m, i, j) ==
  IF (i + 1) \in DOMAIN m.dist /\ (j + 1) \in DOMAIN m.dist[i + 1]
  THEN m.dist[i + 1][j + 1] ELSE Missing
\* DistanceMatrix.duration(i, j): _duration_matrix[i][j]
Duration(m, i, j) ==
  IF (i + 1) \in DOMAIN m.dur /\ (j + 1) \in DOMAIN m.dur[i + 1]
  THEN m.dur[i + 1][j + 1] ELSE Missing
\* DistanceMatrix.size()
Size(m) == m.n

\* ------------------------------------------------------- nearest_neighbor
\* the inner loop "for j in range(n)" from j on, carrying (nearest, nearest_dist)
RECURSIVE NNScan(_, _, _, _, _, _)
NNScan(m, vis, cur, j, nearest, nearest_dist) ==
  IF j >= Size(m) THEN nearest
  ELSE IF ~vis[j] /\ FLt(Distance(m, cur, j), nearest_dist)
       THEN NNScan(m, vis, cur, j + 1, j, Distance(m, cur, j))
       ELSE NNScan(m, vis, cur, j + 1, nearest, nearest_dist)
Nearest(m, vis, cur) == NNScan(m, vis, cur, 0, -1, Inf)
\* the inner loop reads outside the table (IndexError)
NNReadFails(m, vis, cur) ==
  \E j \in 0..(Size(m) - 1) : ~vis[j] /\ Distance(m, cur, j) = Missing

\* ---------------------------------------------------------------- two_opt
\* a gain that takes dist(a,d) for the new edge (b,d)
TwoOptGainWrongEdge(m, r, i, j) ==
  LET a == At(r, i - 1)
      b == At(r, i)
      c == At(r, j)
      d == At(r, j + 1)
      current_distance == FAdd(Distance(m, a, b), Distance(m, c, d))
      new_distance == FAdd(Distance(m, a, c), Distance(m, a, d))
  IN FSub(current_distance, new_distance)
\* _calculate_two_opt_gain(route, i, j)
TwoOptGain(m, r, i, j) ==
  LET a == At(r, i - 1)
      b == At(r, i)
      c == At(r, j)
      d == At(r, j + 1)
      current_distance == FAdd(Distance(m, a, b), Distance(m, c, d))
      new_distance == FAdd(Distance(m, a, c), Distance(m, b, d))
  IN FSub(current_distance, new_distance)
\* the gain computation reads outside the table (IndexError)
GainReadFails(m, r, i, j) ==
  LET a == At(r, i - 1)
      b == At(r, i)
      c == At(r, j)
      d == At(r, j + 1)
  IN Missing \in {Distance(m, a, b), Distance(m, c, d), Distance(m, a, c), Distance(m, b, d)}
\* a swap that reverses the positions i..j+1
ApplyTwoOptSwapIncludingNext(r, i, j) == ReverseSegment(r, i, j + 1)
\* _apply_two_opt_swap(route, i, j)
ApplyTwoOptSwap(r, i, j) == ReverseSegment(r, i, j)
\* one pass of the nested for loops from the pair (i, j) on: the first pair
\* with gain > 0 (kind "swap"), none (kind "none"), or an IndexError ("raise")
RECURSIVE ScanPairs(_, _, _, _)
ScanPairs(m, r, i, j) ==
  LET n == Len(r) IN
  IF i > n - 3 THEN [kind |-> "none", i |-> 0, j |-> 0]
  ELSE IF j > n - 2 THEN ScanPairs(m, r, i + 1, i + 2)
  ELSE IF GainReadFails(m, r, i, j) THEN [kind |-> "raise", i |-> i, j |-> j]
  ELSE IF FPositive(TwoOptGain(m, r, i, j)) THEN [kind |-> "swap", i |-> i, j |-> j]
  ELSE ScanPairs(m, r, i, j + 1)
\* a pass that starts its scan at i = 2
FirstImprovingFromSecond(m, r) == ScanPairs(m, r, 2, 3)
\* lines 205-206: the scan of a pass starts at i = 1, j = i + 1
FirstImproving(m, r) == ScanPairs(m, r, 1, 2)
\* a pass that swaps but does not mark the route as improved
PassImprovedNever(f) == FALSE
\* "improved = True" is executed in the pass exactly when a pair was swapped
PassImproved(f) == f.kind = "swap"

\* --------------------------------- calculate_route_distance / _duration
RECURSIVE RouteDistanceFrom(_, _, _)
RouteDistanceFrom(m, r, p) ==
  IF p >= Len(r) - 1 THEN 0
  ELSE FAdd(Distance(m, At(r, p), At(r, p + 1)), RouteDistanceFrom(m, r, p + 1))
\* a total that leaves out the first pair: "for i in range(1, len(route) - 1)"
CalculateRouteDistanceFromSecond(m, r) == RouteDistanceFrom(m, r, 1)
CalculateRouteDistance(m, r) == RouteDistanceFrom(m, r, 0)
RECURSIVE RouteDurationFrom(_, _, _)
RouteDurationFrom(m, r, p) ==
  IF p >= Len(r) - 1 THEN 0
  ELSE FAdd(Duration(m, At(r, p), At(r, p + 1)), RouteDurationFrom(m, r, p + 1))
CalculateRouteDuration(m, r) == RouteDurationFrom(m, r, 0)
\* a total reads outside the table (IndexError)
TotalsReadFail(m, r) ==
  \E p \in 0..(Len(r) - 2) :
     \/ Distance(m, At(r, p), At(r, p + 1)) = Missing
     \/ Duration(m, At(r, p), At(r, p + 1)) = Missing


\* ------------------------------------------- DistanceMatrix construction
\* a table that takes the value of every element, whatever its status
BuildDistanceMatrixAnyStatus(rows) ==
  [r \in DOMAIN rows |->
     [e \in DOMAIN rows[r].elements |-> rows[r].elements[e].distance]]
\* _build_distance_matrix: one row of weights per response row
BuildDistanceMatrix(rows) ==
  [r \in DOMAIN rows |->
     [e \in DOMAIN rows[r].elements |->
        IF rows[r].elements[e].status = "OK"
        THEN rows[r].elements[e].distance ELSE Inf]]
\* _build_duration_matrix
BuildDurationMatrix(rows) ==
  [r \in DOMAIN rows |->
     [e \in DOMAIN rows[r].elements |->
        IF rows[r].elements[e].status = "OK"
        THEN rows[r].elements[e].duration ELSE Inf]]
\* DistanceMatrix.__init__(google_matrix_response)
NewDistanceMatrix(response) ==
  [n |-> Len(response.rows),
   dist |-> BuildDistanceMatrix(response.rows),
   dur |-> BuildDurationMatrix(response.rows)]

\* ------------------------------------------------ provider responses (inputs)
\* an element the provider could not route: it carries no usable values
FailedElement == [status |-> "ZERO_RESULTS", distance |-> 0, duration |-> 0]
OkElement(dist, dur) == [status |-> "OK", distance |-> dist, duration |-> dur]
\* the mock provider's answer for one (origin, destination) pair; it depends on
\* the pair only.  Durations differ for every pair, so a misplaced element shows.
MockDistance(seed, o, d) ==
  IF o = d THEN 0 ELSE 1 + ((seed[1] * o + seed[2] * d + o * d) % MockMod)
MockDuration(o, d) == IF o = d THEN 0 ELSE 100 * (o + 1) + d
MockElement(seed, failed, o, d) ==
  IF <<o, d>> \in failed THEN FailedElement
  ELSE OkElement(MockDistance(seed, o, d), MockDuration(o, d))
\* the provider's OK response to one request (origins x destinations)
MockRows(seed, failed, os, ds) ==
  [r \in DOMAIN os |->
     [elements |-> [c \in DOMAIN ds |-> MockElement(seed, failed, os[r], ds[c])]]]
Seeds == (0..(MockMod - 1)) \X (0..(MockMod - 1))
OffDiagonal(N) == {c \in (0..(N - 1)) \X (0..(N - 1)) : c[1] /= c[2]}
Ids(N) == [k \in 1..N |-> k - 1]

\* every table of N locations with weights 1..MaxW or unreachable off the diagonal
Weights == (1..MaxW) \cup {Inf}
CellElement(w) == IF w = Inf THEN FailedElement ELSE OkElement(w, 3 * w)
ExhaustiveResponse(N, w) ==
  [status |-> "OK",
   rows |-> [r \in 1..N |->
      [elements |-> [c \in 1..N |->
         IF r = c THEN OkElement(0, 0) ELSE CellElement(w[<<r - 1, c - 1>>])]]]]
ExhaustiveMatrices ==
  UNION {{NewDistanceMatrix(ExhaustiveResponse(N, w)) : w \in [OffDiagonal(N) -> Weights]}
         : N \in 1..(TwoOptMinRoute - 1)}
\* the mock provider's tables, with at most one failed element
MockFailures(N) == {{}} \cup {{c} : c \in OffDiagonal(N)}
MockMatrices ==
  UNION {{NewDistanceMatrix([status |-> "OK",
                             rows |-> MockRows(sf[1], sf[2], Ids(N), Ids(N))])
          : sf \in Seeds \X MockFailures(N)}
         : N \in TwoOptMinRoute..MaxN}
\* a provider request is number k of the call; at most one of them is answered
\* with a fault: a transport exception, or a top-level status that is not OK
\* (which, as the provider does, carries no rows)
NoFault == [at |-> 0, kind |-> "none"]
NoProvider == [seed |-> <<0, 0>>, failed |-> {}, fault |-> NoFault]
NoResponse == [status |-> "NONE", rows |-> <<>>]
FaultStatus == "OVER_QUERY_LIMIT"
\* Python's None, and a string given by the parts it is formatted from
NoneValue == [none |-> TRUE, text |-> <<>>]
Str(parts) == [none |-> FALSE, text |-> parts]
NonEmptyString(e) == ~e.none /\ \E k \in DOMAIN e.text : e.text[k] /= ""
NoResult == [error |-> Str(<<"not returned">>)]
NoMatrix == [n |-> 0, dist |-> <<>>, dur |-> <<>>]
IterationArgs == (1..MaxIter) \cup {DefaultMaxIterations}
\* open_route_in_browser has not been called
NotReturned == [kind |-> "none", value |-> <<>>]
LinkVarsIdle ==
  /\ optimize = FALSE
  /\ ordered_addresses = <<>>
  /\ formatted_addresses = <<>>
  /\ chunks = <<>>
  /\ chunk_idx = 0
  /\ urls = <<>>
  /\ opened = <<>>
  /\ returned = NotReturned
\* no total has been computed
NoTotals == [distance |-> 0, duration |-> 0, segment_distances |-> <<>>,
             segment_durations |-> <<>>]
TotalVarsIdle ==
  /\ segments = <<>>
  /\ totals = NoTotals

\* ===================================================== RouteOptimizer methods
\* nearest_neighbor, lines 123-127
NearestNeighborBegin ==
  /\ pc = "nn_begin"
  /\ visited' = [j \in 0..(Size(dm) - 1) |-> j = start_idx]
  /\ route' = <<start_idx>>
  /\ current' = start_idx
  /\ nn_iter' = 0
  /\ pc' = "nn_loop"
  /\ UNCHANGED pipeVars
  /\ UNCHANGED <<linkVars, totalVars, optimize_out>>
  /\ UNCHANGED <<caller, dm, start_idx, max_iterations, nn_out, initial_route,
                 improved, iterations, runs>>

\* nearest_neighbor, one iteration of "for _ in range(n - 1)", lines 130-144
NearestNeighborStep ==
  /\ pc = "nn_loop"
  /\ nn_iter < Size(dm) - 1
  /\ IF NNReadFails(dm, visited, current)
     THEN /\ pc' = "raised"
          /\ UNCHANGED <<visited, route, current, nn_iter>>
     ELSE \E nearest \in {Nearest(dm, visited, current)} :
          /\ pc' = "nn_loop"
          /\ nn_iter' = nn_iter + 1
          /\ IF nearest /= -1
             THEN /\ route' = Append(route, nearest)
                  /\ visited' = [visited EXCEPT ![nearest] = TRUE]
                  /\ current' = nearest
             ELSE UNCHANGED <<route, visited, current>>
  /\ UNCHANGED pipeVars
  /\ UNCHANGED <<linkVars, totalVars, optimize_out>>
  /\ UNCHANGED <<caller, dm, start_idx, max_iterations, nn_out, initial_route,
                 improved, iterations, runs>>

\* nearest_neighbor, lines 146-149
NearestNeighborReturn ==
  /\ pc = "nn_loop"
  /\ nn_iter >= Size(dm) - 1
  /\ route' = Append(route, start_idx)
  /\ nn_out' = route'
  /\ pc' = "nn_return"
  /\ UNCHANGED pipeVars
  /\ UNCHANGED <<linkVars, totalVars, optimize_out>>
  /\ UNCHANGED <<caller, dm, start_idx, max_iterations, visited, current, nn_iter,
                 initial_route, improved, iterations, runs>>

\* two_opt, lines 185-195
TwoOptBegin ==
  /\ pc = "two_opt_begin"
  /\ route' = initial_route
  /\ IF Len(initial_route) < TwoOptMinRoute
     THEN /\ runs' = Append(runs, [input |-> initial_route, output |-> initial_route,
                                   term |-> "SHORT", passes |-> 0])
          /\ pc' = "two_opt_return"
          /\ UNCHANGED <<improved, iterations>>
     ELSE /\ improved' = TRUE
          /\ iterations' = 0
          /\ pc' = "two_opt_loop"
          /\ UNCHANGED runs
  /\ UNCHANGED pipeVars
  /\ UNCHANGED <<linkVars, totalVars, optimize_out>>
  /\ UNCHANGED <<caller, dm, start_idx, max_iterations, visited, current, nn_iter,
                 nn_out, initial_route>>

\* a loop that allows one pass more than max_iterations
LoopContinuesOnePassMore(imp, it, cap) == imp /\ it <= cap
\* line 197: "while improved and iterations < max_iterations"
LoopContinues(imp, it, cap) == imp /\ it < cap

\* two_opt, one pass of the while loop, lines 197-218
TwoOptPass ==
  /\ pc = "two_opt_loop"
  /\ LoopContinues(improved, iterations, max_iterations)
  /\ \E f \in {FirstImproving(dm, route)} :
       IF f.kind = "raise"
       THEN /\ pc' = "raised"
            /\ UNCHANGED <<route, improved, iterations>>
       ELSE /\ pc' = "two_opt_loop"
            /\ iterations' = iterations + 1
            /\ improved' = PassImproved(f)
            /\ route' = IF f.kind = "swap" THEN ApplyTwoOptSwap(route, f.i, f.j) ELSE route
  /\ UNCHANGED pipeVars
  /\ UNCHANGED <<linkVars, totalVars, optimize_out>>
  /\ UNCHANGED <<caller, dm, start_idx, max_iterations, visited, current, nn_iter,
                 nn_out, initial_route, runs>>

\* two_opt, the loop ends, lines 197 and 220: CONVERGED after a pass without an
\* improving pair, MAX_ITER when the cap stops a loop that was still improving
TwoOptReturn ==
  /\ pc = "two_opt_loop"
  /\ ~LoopContinues(improved, iterations, max_iterations)
  /\ runs' = Append(runs, [input |-> initial_route, output |-> route,
                           term |-> IF improved THEN "MAX_ITER" ELSE "CONVERGED",
                           passes |-> iterations])
  /\ pc' = "two_opt_return"
  /\ UNCHANGED pipeVars
  /\ UNCHANGED <<linkVars, totalVars, optimize_out>>
  /\ UNCHANGED <<caller, dm, start_idx, max_iterations, visited, route, current,
                 nn_iter, nn_out, initial_route, improved, iterations>>

\* ===================================== SpecOpt: the methods called directly
\* two_opt(nearest_neighbor(start), max_iterations)
ApiTwoOpt ==
  /\ pc = "nn_return" /\ caller = "api"
  /\ initial_route' = nn_out
  /\ pc' = "two_opt_begin"
  /\ UNCHANGED pipeVars
  /\ UNCHANGED <<linkVars, totalVars, optimize_out>>
  /\ UNCHANGED <<caller, dm, start_idx, max_iterations, visited, route, current,
                 nn_iter, nn_out, improved, iterations, runs>>

\* two_opt again, on the output of the first call
ApiTwoOptAgain ==
  /\ pc = "two_opt_return" /\ caller = "api"
  /\ Len(runs) = 1
  /\ initial_route' = runs[1].output
  /\ pc' = "two_opt_begin"
  /\ UNCHANGED pipeVars
  /\ UNCHANGED <<linkVars, totalVars, optimize_out>>
  /\ UNCHANGED <<caller, dm, start_idx, max_iterations, visited, route, current,
                 nn_iter, nn_out, improved, iterations, runs>>

ApiDone ==
  /\ pc = "two_opt_return" /\ caller = "api"
  /\ Len(runs) = 2
  /\ pc' = "done"
  /\ UNCHANGED <<linkVars, totalVars>>
  /\ UNCHANGED <<caller, optVars, pipeVars>>

\* a call that applies 2-opt whatever the number of locations
OptimizeAppliesTwoOptAlways(m, flag) == flag
\* line 295: "if use_two_opt and self.dm.size() >= 4"
OptimizeAppliesTwoOpt(m, flag) == flag /\ Size(m) >= OptimizeMinSize

\* optimize, lines 292-296: route = nearest_neighbor(start_idx), then two_opt
\* or the return of the nearest-neighbor route
OptimizeAfterNearestNeighbor ==
  /\ pc = "nn_return" /\ caller = "optimize"
  /\ IF OptimizeAppliesTwoOpt(dm, use_two_opt)
     THEN /\ initial_route' = nn_out
          /\ max_iterations' = DefaultMaxIterations
          /\ pc' = "two_opt_begin"
          /\ UNCHANGED optimize_out
     ELSE /\ optimize_out' = nn_out
          /\ pc' = "done"
          /\ UNCHANGED <<initial_route, max_iterations>>
  /\ UNCHANGED <<pipeVars, linkVars, totalVars>>
  /\ UNCHANGED <<caller, dm, start_idx, visited, route, current, nn_iter, nn_out,
                 improved, iterations, runs>>

\* optimize, lines 296-298: route = two_opt(route); return route
OptimizeAfterTwoOpt ==
  /\ pc = "two_opt_return" /\ caller = "optimize"
  /\ optimize_out' = Last(runs).output
  /\ pc' = "done"
  /\ UNCHANGED <<pipeVars, linkVars, totalVars>>
  /\ UNCHANGED <<caller, dm, start_idx, max_iterations, visited, route, current,
                 nn_iter, nn_out, initial_route, improved, iterations, runs>>

\* two_opt called on a given sequence has returned
TwoOptDone ==
  /\ pc = "two_opt_return" /\ caller = "two_opt"
  /\ pc' = "done"
  /\ UNCHANGED <<caller, optVars, pipeVars, linkVars, totalVars>>

\* the table of the example of the specification: 4 locations, symmetric,
\* d(0,1)=10, d(0,2)=50, d(0,3)=20, d(1,2)=15, d(1,3)=35, d(2,3)=25
ExampleWeights ==
  <<<<0, 10, 50, 20>>, <<10, 0, 15, 35>>, <<50, 15, 0, 25>>, <<20, 35, 25, 0>>>>
ExampleMatrix ==
  NewDistanceMatrix(
    [status |-> "OK",
     rows |-> [r \in 1..4 |->
        [elements |-> [c \in 1..4 |->
           OkElement(ExampleWeights[r][c], 3 * ExampleWeights[r][c])]]]])
\* number of locations of the tables two_opt is given with an arbitrary
\* sequence: the most for which optimize leaves two_opt out
SequenceLocs == OptimizeMinSize - 1
\* the mock provider's tables of fewer locations than optimize needs for 2-opt
SmallMockMatrices ==
  UNION {{NewDistanceMatrix([status |-> "OK",
                             rows |-> MockRows(sf[1], sf[2], Ids(N), Ids(N))])
          : sf \in {<<1, 1>>, <<0, 1>>} \X MockFailures(N)}
         : N \in 1..(OptimizeMinSize - 1)}
\* the tables two_opt is given together with an arbitrary sequence: the mock
\* provider's symmetric and asymmetric tables of SequenceLocs locations, with
\* no failed element or one failed element from the last location
SequenceFailures ==
  {{}} \cup {{c} : c \in {d \in OffDiagonal(SequenceLocs) : d[1] = SequenceLocs - 1}}
SequenceMatrices ==
  {NewDistanceMatrix([status |-> "OK",
                      rows |-> MockRows(sf[1], sf[2], Ids(SequenceLocs), Ids(SequenceLocs))])
   : sf \in {<<1, 1>>, <<0, 1>>} \X SequenceFailures}
\* max_iterations of the calls on an arbitrary sequence: no pass, MaxIter
\* passes, the default
SequenceIterationArgs == {0, MaxIter, DefaultMaxIterations}
\* every index sequence of at most MaxInputLen positions
InputSequences(N) == UNION {[1..len -> 0..(N - 1)] : len \in 0..MaxInputLen}

InitOpt ==
  /\ \/ /\ caller = "api"
        /\ pc = "nn_begin"
        /\ dm \in ExhaustiveMatrices \cup MockMatrices \cup {ExampleMatrix}
        /\ start_idx \in 0..(Size(dm) - 1)
        /\ max_iterations \in IterationArgs
        /\ use_two_opt = TRUE
        /\ initial_route = <<>>
     \/ /\ caller = "optimize"
        /\ pc = "nn_begin"
        /\ dm \in SmallMockMatrices \cup MockMatrices
        /\ start_idx \in 0..(Size(dm) - 1)
        /\ max_iterations = DefaultMaxIterations
        /\ use_two_opt \in BOOLEAN
        /\ initial_route = <<>>
     \/ /\ caller = "two_opt"
        /\ pc = "two_opt_begin"
        /\ dm \in SequenceMatrices
        /\ start_idx = 0
        /\ max_iterations \in SequenceIterationArgs
        /\ use_two_opt = TRUE
        /\ initial_route \in InputSequences(Size(dm))
  /\ visited = <<>>
  /\ route = <<>>
  /\ current = 0
  /\ nn_iter = 0
  /\ nn_out = <<>>
  /\ improved = FALSE
  /\ iterations = 0
  /\ runs = <<>>
  /\ optimize_out = <<>>
  /\ addresses = <<>>
  /\ provider = NoProvider
  /\ origins = <<>>
  /\ destinations = <<>>
  /\ batch_i = 0
  /\ batch_j = 0
  /\ batch_num = 0
  /\ row_data = <<>>
  /\ all_rows = <<>>
  /\ log = <<>>
  /\ exc = ""
  /\ google_matrix = NoResponse
  /\ route_indices = <<>>
  /\ result = NoResult
  /\ LinkVarsIdle
  /\ TotalVarsIdle

NextOpt ==
  \/ NearestNeighborBegin
  \/ NearestNeighborStep
  \/ NearestNeighborReturn
  \/ ApiTwoOpt
  \/ TwoOptBegin
  \/ TwoOptPass
  \/ TwoOptReturn
  \/ ApiTwoOptAgain
  \/ ApiDone
  \/ OptimizeAfterNearestNeighbor
  \/ OptimizeAfterTwoOpt
  \/ TwoOptDone

SpecOpt == InitOpt /\ [][NextOpt]_vars

\* the calls of optimize and of two_opt on a given sequence, with the
\* interpreter executing the next statement of a call as long as it has one
InitCalls == InitOpt /\ caller \in {"optimize", "two_opt"}
NextCalls ==
  \/ NearestNeighborBegin
  \/ NearestNeighborStep
  \/ NearestNeighborReturn
  \/ TwoOptBegin
  \/ TwoOptPass
  \/ TwoOptReturn
  \/ OptimizeAfterNearestNeighbor
  \/ OptimizeAfterTwoOpt
  \/ TwoOptDone
SpecOptFair == InitCalls /\ [][NextCalls]_vars /\ WF_vars(NextCalls)

\* ============================================ RouteGenerator, the provider
\* format_address_for_api(address_dict): the location string of an address record
FormatAddressForApi(a) == a.id
\* all_locations = [self.fixed_start] + formatted_addresses
AllLocations(as) == <<FixedStart>> \o [k \in DOMAIN as |-> FormatAddressForApi(as[k])]
\* s[i:i + MAX_BATCH_SIZE] cut one element too long
BatchSliceTooLong(s, i) ==
  SubSeq(s, i + 1, IF i + MAX_BATCH_SIZE + 1 < Len(s) THEN i + MAX_BATCH_SIZE + 1 ELSE Len(s))
\* s[i:i + MAX_BATCH_SIZE]
BatchSlice(s, i) ==
  SubSeq(s, i + 1, IF i + MAX_BATCH_SIZE < Len(s) THEN i + MAX_BATCH_SIZE ELSE Len(s))
\* total_batches
TotalBatches(os, ds) ==
  (((Len(os) - 1) \div MAX_BATCH_SIZE) + 1) * (((Len(ds) - 1) \div MAX_BATCH_SIZE) + 1)
\* the requests a call makes when no request fails
ExpectedRequests(os, ds) ==
  IF Len(os) * Len(ds) <= ElementCap THEN 1 ELSE TotalBatches(os, ds)

\* self.gmaps.distance_matrix(origins=os, destinations=ds), request number k
ProviderFault(k) == IF provider.fault.at = k THEN provider.fault.kind ELSE "none"
ProviderResponse(k, os, ds) ==
  IF ProviderFault(k) = "status"
  THEN [status |-> FaultStatus, rows |-> <<>>]
  ELSE [status |-> "OK", rows |-> MockRows(provider.seed, provider.failed, os, ds)]
RequestEvent(os, ds) == [ev |-> "request", origins |-> os, destinations |-> ds, ms |-> 0]
SleepEvent == [ev |-> "sleep", origins |-> <<>>, destinations |-> <<>>, ms |-> SleepMs]
\* a delay that is left out after the last request but one, too
SleepAfterUntilLastButOne(num, total) == IF num < total - 1 THEN <<SleepEvent>> ELSE <<>>
\* lines 442-444: "if batch_num < total_batches: time.sleep(0.2)"
SleepAfter(num, total) == IF num < total THEN <<SleepEvent>> ELSE <<>>
\* a range that leaves out every second block
RangeNextSkipping(v) == v + 2 * MAX_BATCH_SIZE
\* range(0, len(...), MAX_BATCH_SIZE), lines 419 and 423: the value after v
RangeNext(v) == v + MAX_BATCH_SIZE

\* a block's elements put in front of the row instead of behind it
StoreBatchInFront(rd, rows, j) ==
  IF j = 0
  THEN [r \in DOMAIN rows |-> [elements |-> rows[r].elements]]
  ELSE [r \in DOMAIN rd |->
          IF r <= Len(rows)
          THEN [elements |-> rows[r].elements \o rd[r].elements]
          ELSE rd[r]]
\* lines 447-454: the first destination block starts the rows of the origin
\* block, every later block extends them
StoreBatch(rd, rows, j) ==
  IF j = 0
  THEN [r \in DOMAIN rows |-> [elements |-> rows[r].elements]]
  ELSE [r \in DOMAIN rd |->
          IF r <= Len(rows)
          THEN [elements |-> rd[r].elements \o rows[r].elements]
          ELSE rd[r]]
\* row_data[row_idx] does not exist (IndexError)
StoreBatchFails(rd, rows, j) == j /= 0 /\ Len(rows) > Len(rd)

\* ======================================== RouteGenerator.get_distance_matrix
\* lines 403-412: the whole table in one request
GetDistanceMatrixDirect ==
  /\ pc = "gdm_begin"
  /\ Len(origins) * Len(destinations) <= ElementCap
  /\ log' = Append(log, RequestEvent(origins, destinations))
  /\ IF ProviderFault(1) = "transport"
     THEN /\ exc' = "transport failure"
          /\ pc' = "gdm_raised"
          /\ UNCHANGED google_matrix
     ELSE /\ google_matrix' = ProviderResponse(1, origins, destinations)
          /\ pc' = "gdm_return"
          /\ UNCHANGED exc
  /\ UNCHANGED <<linkVars, totalVars>>
  /\ UNCHANGED <<caller, optVars, addresses, use_two_opt, provider, origins,
                 destinations, batch_i, batch_j, batch_num, row_data, all_rows,
                 route_indices, result>>

\* lines 414-421: batched acquisition starts
GetDistanceMatrixBatched ==
  /\ pc = "gdm_begin"
  /\ Len(origins) * Len(destinations) > ElementCap
  /\ all_rows' = <<>>
  /\ batch_num' = 0
  /\ batch_i' = 0
  /\ batch_j' = 0
  /\ row_data' = <<>>
  /\ pc' = "gdm_batch"
  /\ UNCHANGED <<linkVars, totalVars>>
  /\ UNCHANGED <<caller, optVars, addresses, use_two_opt, provider, origins,
                 destinations, log, exc, google_matrix, route_indices, result>>

\* lines 423-454: one block request, the sleep after it and the storing of its rows
BatchRequest ==
  /\ pc = "gdm_batch"
  /\ batch_i < Len(origins)
  /\ batch_j < Len(destinations)
  /\ LET origin_batch == BatchSlice(origins, batch_i)
         dest_batch == BatchSlice(destinations, batch_j)
         num == batch_num + 1
         rows == ProviderResponse(num, origin_batch, dest_batch).rows
         slept == SleepAfter(num, TotalBatches(origins, destinations))
     IN
     /\ batch_num' = num
     /\ IF ProviderFault(num) = "transport"
        THEN /\ log' = Append(log, RequestEvent(origin_batch, dest_batch))
             /\ exc' = "transport failure"
             /\ pc' = "gdm_raised"
             /\ UNCHANGED <<row_data, batch_j>>
        ELSE /\ log' = Append(log, RequestEvent(origin_batch, dest_batch)) \o slept
             /\ IF StoreBatchFails(row_data, rows, batch_j)
                THEN /\ exc' = "list index out of range"
                     /\ pc' = "gdm_raised"
                     /\ UNCHANGED <<row_data, batch_j>>
                ELSE /\ row_data' = StoreBatch(row_data, rows, batch_j)
                     /\ batch_j' = RangeNext(batch_j)
                     /\ pc' = "gdm_batch"
                     /\ UNCHANGED exc
  /\ UNCHANGED <<linkVars, totalVars>>
  /\ UNCHANGED <<caller, optVars, addresses, use_two_opt, provider, origins,
                 destinations, batch_i, all_rows, google_matrix, route_indices, result>>

\* line 456, and lines 419-421 of the next origin block
BatchRowEnd ==
  /\ pc = "gdm_batch"
  /\ batch_i < Len(origins)
  /\ batch_j >= Len(destinations)
  /\ all_rows' = all_rows \o row_data
  /\ batch_i' = RangeNext(batch_i)
  /\ batch_j' = 0
  /\ row_data' = <<>>
  /\ UNCHANGED <<linkVars, totalVars>>
  /\ UNCHANGED <<pc, caller, optVars, addresses, use_two_opt, provider, origins,
                 destinations, batch_num, log, exc, google_matrix, route_indices,
                 result>>

\* lines 458-466: the reassembled response
BatchFinish ==
  /\ pc = "gdm_batch"
  /\ batch_i >= Len(origins)
  /\ google_matrix' = [status |-> "OK", rows |-> all_rows]
  /\ pc' = "gdm_return"
  /\ UNCHANGED <<linkVars, totalVars>>
  /\ UNCHANGED <<caller, optVars, addresses, use_two_opt, provider, origins,
                 destinations, batch_i, batch_j, batch_num, row_data, all_rows, log,
                 exc, route_indices, result>>

\* ============================================= RouteGenerator.optimize_route
\* the result returned on an error, lines 490-495, 513-518, 522-527
ErrorResult(message) ==
  [route |-> <<>>, total_distance |-> 0, total_duration |-> 0, error |-> Str(message)]
\* an empty list that is not noticed
NoAddressesNever(as) == FALSE
\* "not addresses", line 489
NoAddresses(as) == as = <<>>
\* an entry that carries the record of the next address
RouteStopOfNextAddress(as, idx) ==
  IF idx = 0
  THEN [address |-> FixedStart, is_start |-> TRUE, original_data |-> NoneValue]
  ELSE [address |-> FormatAddressForApi(as[idx]), is_start |-> FALSE,
        original_data |-> as[(idx % Len(as)) + 1]]
\* one entry of the returned route, lines 559-571
RouteStop(as, idx) ==
  IF idx = 0
  THEN [address |-> FixedStart, is_start |-> TRUE, original_data |-> NoneValue]
  ELSE [address |-> FormatAddressForApi(as[idx]), is_start |-> FALSE,
        original_data |-> as[idx]]

\* lines 489-511
OptimizeRouteBegin ==
  /\ pc = "or_begin"
  /\ IF NoAddresses(addresses)
     THEN /\ result' = ErrorResult(<<"Nenhum endereco fornecido">>)
          /\ pc' = "done"
          /\ UNCHANGED <<origins, destinations>>
     ELSE /\ origins' = AllLocations(addresses)
          /\ destinations' = AllLocations(addresses)
          /\ pc' = "gdm_begin"
          /\ UNCHANGED result
  /\ UNCHANGED <<linkVars, totalVars>>
  /\ UNCHANGED <<caller, optVars, addresses, use_two_opt, provider, batch_i, batch_j,
                 batch_num, row_data, all_rows, log, exc, google_matrix, route_indices>>

\* the except clause that lets the exception of get_distance_matrix through
OptimizeRouteMatrixErrorUncaught ==
  /\ pc = "gdm_raised"
  /\ caller = "optimize_route"
  /\ pc' = "raised"
  /\ UNCHANGED <<linkVars, totalVars>>
  /\ UNCHANGED <<caller, optVars, pipeVars>>

\* lines 512-518: get_distance_matrix raised
OptimizeRouteMatrixError ==
  /\ pc = "gdm_raised"
  /\ caller = "optimize_route"
  /\ result' = ErrorResult(<<"Erro ao obter matriz de distancias: ", exc>>)
  /\ pc' = "done"
  /\ UNCHANGED <<linkVars, totalVars>>
  /\ UNCHANGED <<caller, optVars, addresses, use_two_opt, provider, origins,
                 destinations, batch_i, batch_j, batch_num, row_data, all_rows, log,
                 exc, google_matrix, route_indices>>

\* lines 520-539: the status check, DistanceMatrix(google_matrix), and the call
\* of nearest_neighbor(start_idx=0)
OptimizeRouteCheckMatrix ==
  /\ pc = "gdm_return"
  /\ caller = "optimize_route"
  /\ IF google_matrix.status /= "OK"
     THEN /\ result' = ErrorResult(<<"Erro na API do Google: ", google_matrix.status>>)
          /\ pc' = "done"
          /\ UNCHANGED <<dm, start_idx>>
     ELSE /\ dm' = NewDistanceMatrix(google_matrix)
          /\ start_idx' = 0
          /\ pc' = "nn_begin"
          /\ UNCHANGED result
  /\ UNCHANGED <<linkVars, totalVars, optimize_out>>
  /\ UNCHANGED <<caller, max_iterations, visited, route, current, nn_iter, nn_out,
                 initial_route, improved, iterations, runs, addresses, use_two_opt,
                 provider, origins, destinations, batch_i, batch_j, batch_num,
                 row_data, all_rows, log, exc, google_matrix, route_indices>>

\* lines 539-545: route_indices = nearest_neighbor(...), then two_opt if enabled
OptimizeRouteAfterNearestNeighbor ==
  /\ pc = "nn_return"
  /\ caller = "optimize_route"
  /\ route_indices' = nn_out
  /\ IF use_two_opt
     THEN /\ initial_route' = nn_out
          /\ max_iterations' = DefaultMaxIterations
          /\ pc' = "two_opt_begin"
     ELSE /\ pc' = "or_totals"
          /\ UNCHANGED <<initial_route, max_iterations>>
  /\ UNCHANGED <<linkVars, totalVars, optimize_out>>
  /\ UNCHANGED <<caller, dm, start_idx, visited, route, current, nn_iter, nn_out,
                 improved, iterations, runs, addresses, use_two_opt, provider,
                 origins, destinations, batch_i, batch_j, batch_num, row_data,
                 all_rows, log, exc, google_matrix, result>>

\* line 545: route_indices = two_opt(route_indices)
OptimizeRouteAfterTwoOpt ==
  /\ pc = "two_opt_return"
  /\ caller = "optimize_route"
  /\ route_indices' = Last(runs).output
  /\ pc' = "or_totals"
  /\ UNCHANGED <<linkVars, totalVars>>
  /\ UNCHANGED <<caller, optVars, addresses, use_two_opt, provider, origins,
                 destinations, batch_i, batch_j, batch_num, row_data, all_rows, log,
                 exc, google_matrix, result>>

\* lines 550-582: the totals, the stops and the returned result
OptimizeRouteFinish ==
  /\ pc = "or_totals"
  /\ IF TotalsReadFail(dm, route_indices)
     THEN /\ pc' = "raised"
          /\ UNCHANGED result
     ELSE /\ result' =
               [route |-> [p \in DOMAIN route_indices |->
                             RouteStop(addresses, route_indices[p])],
                route_indices |-> route_indices,
                total_distance |-> CalculateRouteDistance(dm, route_indices),
                total_duration |-> CalculateRouteDuration(dm, route_indices),
                num_stops |-> Len(addresses),
                error |-> NoneValue]
          /\ pc' = "done"
  /\ UNCHANGED <<linkVars, totalVars>>
  /\ UNCHANGED <<caller, optVars, addresses, use_two_opt, provider, origins,
                 destinations, batch_i, batch_j, batch_num, row_data, all_rows, log,
                 exc, google_matrix, route_indices>>

\* ------------------------------------------------------------ Spec: inputs
Addresses(n) == [k \in 1..n |-> [id |-> k]]
AllCells(N) == (0..(N - 1)) \X (0..(N - 1))
\* the seeds of the providers of Spec: a symmetric and an asymmetric table
PipeSeeds == {<<1, 1>>, <<0, 1>>}
\* the elements towards location j from every other location
UnreachableLocation(N, j) == {c \in OffDiagonal(N) : c[2] = j}
\* providers without a faulty request: no failed element, one failed element
\* anywhere, or one location that no other location reaches
SoundProviders(N) ==
  {[seed |-> s, failed |-> f, fault |-> NoFault] :
     s \in PipeSeeds,
     f \in {{}} \cup {{c} : c \in AllCells(N)}
           \cup {UnreachableLocation(N, j) : j \in 0..(N - 1)}}
\* providers that answer exactly one of the requests of the call with a fault
FaultyProviders(os, ds) ==
  {[seed |-> <<0, 1>>, failed |-> {}, fault |-> [at |-> k, kind |-> kd]] :
     k \in 1..ExpectedRequests(os, ds), kd \in {"transport", "status"}}

Init ==
  /\ \/ /\ caller = "optimize_route"
        /\ pc = "or_begin"
        /\ \E n \in 0..MaxAddr :
             /\ addresses = Addresses(n)
             /\ provider \in SoundProviders(n + 1)
                   \cup FaultyProviders(AllLocations(addresses), AllLocations(addresses))
        /\ use_two_opt \in BOOLEAN
        /\ origins = <<>>
        /\ destinations = <<>>
     \/ /\ caller = "get_distance_matrix"
        /\ pc = "gdm_begin"
        /\ addresses = <<>>
        /\ use_two_opt = TRUE
        /\ \E no \in 0..MaxLoc, nd \in 0..MaxLoc :
             /\ origins = Ids(no)
             /\ destinations = Ids(nd)
        /\ provider = [seed |-> <<0, 1>>, failed |-> {}, fault |-> NoFault]
  /\ dm = NoMatrix
  /\ start_idx = 0
  /\ max_iterations = DefaultMaxIterations
  /\ visited = <<>>
  /\ route = <<>>
  /\ current = 0
  /\ nn_iter = 0
  /\ nn_out = <<>>
  /\ initial_route = <<>>
  /\ improved = FALSE
  /\ iterations = 0
  /\ runs = <<>>
  /\ optimize_out = <<>>
  /\ batch_i = 0
  /\ batch_j = 0
  /\ batch_num = 0
  /\ row_data = <<>>
  /\ all_rows = <<>>
  /\ log = <<>>
  /\ exc = ""
  /\ google_matrix = NoResponse
  /\ route_indices = <<>>
  /\ result = NoResult
  /\ LinkVarsIdle
  /\ TotalVarsIdle

Next ==
  \/ OptimizeRouteBegin
  \/ GetDistanceMatrixDirect
  \/ GetDistanceMatrixBatched
  \/ BatchRequest
  \/ BatchRowEnd
  \/ BatchFinish
  \/ OptimizeRouteMatrixError
  \/ OptimizeRouteCheckMatrix
  \/ NearestNeighborBegin
  \/ NearestNeighborStep
  \/ NearestNeighborReturn
  \/ OptimizeRouteAfterNearestNeighbor
  \/ TwoOptBegin
  \/ TwoOptPass
  \/ TwoOptReturn
  \/ OptimizeRouteAfterTwoOpt
  \/ OptimizeRouteFinish

Spec == Init /\ [][Next]_vars

\* ============================================ RouteGenerator, link building
\* MAX_WAYPOINTS of open_route_in_browser
MAX_WAYPOINTS == 9
\* base_url and the travel-mode parameter of _create_google_maps_url
BaseUrl == "https://www.google.com/maps/dir/"
TravelModeQuery == "?travelmode=driving"
\* urllib.parse.quote(s): the percent-encoded form of the location string s,
\* another string than s, and a different one for every s
Quote(s) == [quoted |-> s]

\* formatted_addresses[i:i + MAX_WAYPOINTS]
ChunkSlice(s, i) ==
  SubSeq(s, i + 1, IF i + MAX_WAYPOINTS < Len(s) THEN i + MAX_WAYPOINTS ELSE Len(s))
\* lines 689-691: the chunks of "for i in range(0, len(...), MAX_WAYPOINTS)" from i on
RECURSIVE ChunksFrom(_, _)
ChunksFrom(s, i) ==
  IF i >= Len(s) THEN <<>>
  ELSE <<ChunkSlice(s, i)>> \o ChunksFrom(s, i + MAX_WAYPOINTS)
\* a split that starts one stop too late
NeedsSplitLate(s) == Len(s) > MAX_WAYPOINTS + 1
\* line 684
NeedsSplit(s) == Len(s) > MAX_WAYPOINTS
\* the first stop of the previous chunk taken for its last
PrevChunkFirst(cs, idx) == IF idx > 0 THEN Head(At(cs, idx - 1)) ELSE NoneValue
\* line 702: chunks[idx-1][-1] if idx > 0 else None
PrevChunkLast(cs, idx) == IF idx > 0 THEN Last(At(cs, idx - 1)) ELSE NoneValue

\* _create_google_maps_url, lines 726-734: a link that always starts at the depot
LinkOriginAlwaysDepot(is_first, prev_chunk_last) == FixedStart
\* _create_google_maps_url, lines 726-734: origin
LinkOrigin(is_first, prev_chunk_last) ==
  IF is_first THEN FixedStart ELSE prev_chunk_last
\* a link that always ends at the last stop it was given
LinkDestinationLastStop(as, is_last) == IF as = <<>> THEN FixedStart ELSE Last(as)
\* lines 736-742: destination
LinkDestination(as, is_last) == IF is_last THEN FixedStart ELSE Last(as)
\* waypoints that keep the stop that became the destination
LinkWaypointsKeepLast(as, is_last) == as
\* lines 730, 734, 743: waypoints
LinkWaypoints(as, is_last) == IF is_last THEN as ELSE SubSeq(as, 1, Len(as) - 1)
\* _create_google_maps_url(addresses, is_first, is_last, prev_chunk_last): the
\* url is base_url, the quoted parts joined by "/", and the travel mode; the
\* parts (url_parts, lines 749-756) are kept apart here
CreateGoogleMapsUrl(as, is_first, is_last, prev_chunk_last) ==
  LET origin == LinkOrigin(is_first, prev_chunk_last)
      destination == LinkDestination(as, is_last)
      waypoints == LinkWaypoints(as, is_last)
      url_parts == <<Quote(origin)>>
                   \o [k \in DOMAIN waypoints |-> Quote(waypoints[k])]
                   \o <<Quote(destination)>>
  IN [base |-> BaseUrl, parts |-> url_parts, query |-> TravelModeQuery]

\* "if not stop['is_start'] and stop['original_data']", line 674
KeepsStop(stop) == ~stop.is_start /\ stop.original_data /= NoneValue
\* lines 671-675: the original_data of the stops kept, in route order
RECURSIVE OrderedFrom(_, _)
OrderedFrom(rt, p) ==
  IF p > Len(rt) THEN <<>>
  ELSE (IF KeepsStop(rt[p]) THEN <<rt[p].original_data>> ELSE <<>>) \o OrderedFrom(rt, p + 1)

\* open_route_in_browser, lines 657-665 and 676-681: the empty list raises;
\* with optimize set nearest_neighbor_route is called, which is optimize_route
\* with use_two_opt=True (line 596); otherwise the given order is formatted
OpenRouteBegin ==
  /\ pc = "orb_begin"
  /\ IF NoAddresses(addresses)
     THEN /\ pc' = "raised"
          /\ exc' = "ValueError: Nenhum endereco fornecido"
          /\ UNCHANGED <<caller, use_two_opt, ordered_addresses, formatted_addresses>>
     ELSE IF optimize
     THEN /\ caller' = "optimize_route"
          /\ use_two_opt' = TRUE
          /\ pc' = "or_begin"
          /\ UNCHANGED <<exc, ordered_addresses, formatted_addresses>>
     ELSE /\ ordered_addresses' = addresses
          /\ formatted_addresses' =
               [k \in DOMAIN addresses |-> FormatAddressForApi(addresses[k])]
          /\ pc' = "orb_links"
          /\ UNCHANGED <<caller, use_two_opt, exc>>
  /\ UNCHANGED <<optVars, totalVars, addresses, provider, origins, destinations,
                 batch_i, batch_j, batch_num, row_data, all_rows, log,
                 google_matrix, route_indices, result, optimize, chunks, chunk_idx,
                 urls, opened, returned>>

\* the call of line 665 is the one open_route_in_browser is waiting for
OptimizingForLinks == caller = "optimize_route" /\ optimize

\* lines 665-681: nearest_neighbor_route returned; a result with an error
\* raises, otherwise the stops kept are formatted in route order
OpenRouteAfterOptimize ==
  /\ pc = "done" /\ OptimizingForLinks
  /\ caller' = "open_route_in_browser"
  /\ IF result.error /= NoneValue
     THEN /\ pc' = "raised"
          /\ exc' = "Exception: route_result['error']"
          /\ UNCHANGED <<ordered_addresses, formatted_addresses>>
     ELSE /\ ordered_addresses' = OrderedFrom(result.route, 1)
          /\ formatted_addresses' =
               [k \in DOMAIN ordered_addresses' |->
                  FormatAddressForApi(ordered_addresses'[k])]
          /\ pc' = "orb_links"
          /\ UNCHANGED exc
  /\ UNCHANGED <<optVars, totalVars, addresses, use_two_opt, provider, origins,
                 destinations, batch_i, batch_j, batch_num, row_data, all_rows, log,
                 google_matrix, route_indices, result, optimize, chunks, chunk_idx,
                 urls, opened, returned>>

\* line 665: an exception that leaves optimize_route is not handled in
\* open_route_in_browser and leaves it too
OpenRouteCallRaised ==
  /\ pc = "raised" /\ OptimizingForLinks
  /\ caller' = "open_route_in_browser"
  /\ exc' = "uncaught exception of optimize_route"
  /\ UNCHANGED <<pc, optVars, totalVars, linkVars, addresses, use_two_opt, provider,
                 origins, destinations, batch_i, batch_j, batch_num, row_data,
                 all_rows, log, google_matrix, route_indices, result>>

\* lines 708-711: one link for the whole list
OpenRouteSingle ==
  /\ pc = "orb_links"
  /\ ~NeedsSplit(formatted_addresses)
  /\ LET url == CreateGoogleMapsUrl(formatted_addresses, TRUE, TRUE, NoneValue) IN
     /\ opened' = Append(opened, url)
     /\ returned' = [kind |-> "single", value |-> url]
  /\ pc' = "done"
  /\ UNCHANGED <<caller, optVars, pipeVars, totalVars, optimize, ordered_addresses,
                 formatted_addresses, chunks, chunk_idx, urls>>

\* lines 684-691: the list is cut into chunks
OpenRouteSplit ==
  /\ pc = "orb_links"
  /\ NeedsSplit(formatted_addresses)
  /\ urls' = <<>>
  /\ chunks' = ChunksFrom(formatted_addresses, 0)
  /\ chunk_idx' = 0
  /\ pc' = "orb_chunk"
  /\ UNCHANGED <<caller, optVars, pipeVars, totalVars, optimize, ordered_addresses,
                 formatted_addresses, opened, returned>>

\* a list that takes the new link in front
KeepUrlInFront(us, url) == <<url>> \o us
\* line 705: urls.append(url)
KeepUrl(us, url) == Append(us, url)

\* lines 694-705: the link of one chunk is created, opened and kept
OpenRouteChunk ==
  /\ pc = "orb_chunk"
  /\ chunk_idx < Len(chunks)
  /\ LET is_first == chunk_idx = 0
         is_last == chunk_idx = Len(chunks) - 1
         url == CreateGoogleMapsUrl(At(chunks, chunk_idx), is_first, is_last,
                                    PrevChunkLast(chunks, chunk_idx))
     IN /\ opened' = Append(opened, url)
        /\ urls' = KeepUrl(urls, url)
  /\ chunk_idx' = chunk_idx + 1
  /\ UNCHANGED <<pc, caller, optVars, pipeVars, totalVars, optimize, ordered_addresses,
                 formatted_addresses, chunks, returned>>

\* line 707: return urls
OpenRouteReturn ==
  /\ pc = "orb_chunk"
  /\ chunk_idx >= Len(chunks)
  /\ returned' = [kind |-> "list", value |-> urls]
  /\ pc' = "done"
  /\ UNCHANGED <<caller, optVars, pipeVars, totalVars, optimize, ordered_addresses,
                 formatted_addresses, chunks, chunk_idx, urls, opened>>

\* address lists whose records format to few locations, so that stops repeat
RepeatedAddresses(n) == [k \in 1..n |-> [id |-> 1 + (k % 3)]]

InitLinks ==
  /\ caller = "open_route_in_browser"
  /\ pc = "orb_begin"
  /\ \/ /\ optimize = FALSE
        /\ \E n \in 0..MaxStops : addresses \in {Addresses(n), RepeatedAddresses(n)}
        /\ provider = NoProvider
     \/ /\ optimize = TRUE
        /\ \E n \in 0..MaxAddr :
             /\ addresses \in {Addresses(n), RepeatedAddresses(n)}
             /\ provider \in SoundProviders(n + 1)
                   \cup FaultyProviders(AllLocations(addresses), AllLocations(addresses))
  /\ ordered_addresses = <<>>
  /\ formatted_addresses = <<>>
  /\ chunks = <<>>
  /\ chunk_idx = 0
  /\ urls = <<>>
  /\ opened = <<>>
  /\ returned = NotReturned
  /\ TotalVarsIdle
  /\ use_two_opt = TRUE
  /\ origins = <<>>
  /\ destinations = <<>>
  /\ dm = NoMatrix
  /\ start_idx = 0
  /\ max_iterations = DefaultMaxIterations
  /\ visited = <<>>
  /\ route = <<>>
  /\ current = 0
  /\ nn_iter = 0
  /\ nn_out = <<>>
  /\ initial_route = <<>>
  /\ improved = FALSE
  /\ iterations = 0
  /\ runs = <<>>
  /\ optimize_out = <<>>
  /\ batch_i = 0
  /\ batch_j = 0
  /\ batch_num = 0
  /\ row_data = <<>>
  /\ all_rows = <<>>
  /\ log = <<>>
  /\ exc = ""
  /\ google_matrix = NoResponse
  /\ route_indices = <<>>
  /\ result = NoResult

NextLinks ==
  \/ OpenRouteBegin
  \/ OptimizeRouteBegin
  \/ GetDistanceMatrixDirect
  \/ GetDistanceMatrixBatched
  \/ BatchRequest
  \/ BatchRowEnd
  \/ BatchFinish
  \/ OptimizeRouteMatrixError
  \/ OptimizeRouteCheckMatrix
  \/ NearestNeighborBegin
  \/ NearestNeighborStep
  \/ NearestNeighborReturn
  \/ OptimizeRouteAfterNearestNeighbor
  \/ TwoOptBegin
  \/ TwoOptPass
  \/ TwoOptReturn
  \/ OptimizeRouteAfterTwoOpt
  \/ OptimizeRouteFinish
  \/ OpenRouteAfterOptimize
  \/ OpenRouteCallRaised
  \/ OpenRouteSingle
  \/ OpenRouteSplit
  \/ OpenRouteChunk
  \/ OpenRouteReturn

SpecLinks == InitLinks /\ [][NextLinks]_vars

\* ============== calculate_route_distance / _duration on routes and segments
\* the positions of cs in increasing order
RECURSIVE SortedCuts(_)
SortedCuts(cs) ==
  IF cs = {} THEN <<>>
  ELSE LET least == CHOOSE c \in cs : \A d \in cs : c <= d
       IN <<least>> \o SortedCuts(cs \ {least})
\* r cut at the positions cs: r[0..c1], r[c1..c2], ..., r[ck..end], every
\* sub-segment starting with the node the one before it ends with
SegmentsAt(r, cs) ==
  LET b == <<0>> \o SortedCuts(cs) \o <<Len(r) - 1>>
  IN [k \in 1..(Len(b) - 1) |-> SubSeq(r, b[k] + 1, b[k + 1] + 1)]
\* the sum of a list of totals
RECURSIVE FSum(_)
FSum(ts) == IF ts = <<>> THEN 0 ELSE FAdd(Head(ts), FSum(Tail(ts)))

\* calculate_route_distance(route) and calculate_route_duration(route)
CalculateRouteTotals ==
  /\ pc = "totals_begin"
  /\ totals' = [totals EXCEPT !.distance = CalculateRouteDistance(dm, route),
                              !.duration = CalculateRouteDuration(dm, route)]
  /\ pc' = "totals_route"
  /\ UNCHANGED <<caller, optVars, pipeVars, linkVars, segments>>

\* the two methods called on contiguous sub-segments that cover route
CalculateSegmentTotals ==
  /\ pc = "totals_route"
  /\ \E cs \in SUBSET (0..(Len(route) - 1)) :
       /\ segments' = SegmentsAt(route, cs)
       /\ totals' = [totals EXCEPT
            !.segment_distances =
               [k \in DOMAIN segments' |-> CalculateRouteDistance(dm, segments'[k])],
            !.segment_durations =
               [k \in DOMAIN segments' |-> CalculateRouteDuration(dm, segments'[k])]]
  /\ pc' = "done"
  /\ UNCHANGED <<caller, optVars, pipeVars, linkVars>>

\* the tables of SpecTotals: the mock provider's asymmetric table of
\* TotalsLocs locations, with at most one failed element
TotalsMatrices ==
  {NewDistanceMatrix([status |-> "OK",
                      rows |-> MockRows(<<0, 1>>, f, Ids(TotalsLocs), Ids(TotalsLocs))])
   : f \in MockFailures(TotalsLocs)}
\* every index sequence of at most MaxRouteLen positions
IndexSequences(N) == UNION {[1..len -> 0..(N - 1)] : len \in 0..MaxRouteLen}

InitTotals ==
  /\ caller = "totals"
  /\ pc = "totals_begin"
  /\ dm \in TotalsMatrices
  /\ route \in IndexSequences(Size(dm))
  /\ TotalVarsIdle
  /\ LinkVarsIdle
  /\ start_idx = 0
  /\ max_iterations = DefaultMaxIterations
  /\ visited = <<>>
  /\ current = 0
  /\ nn_iter = 0
  /\ nn_out = <<>>
  /\ initial_route = <<>>
  /\ improved = FALSE
  /\ iterations = 0
  /\ runs = <<>>
  /\ optimize_out = <<>>
  /\ addresses = <<>>
  /\ use_two_opt = TRUE
  /\ provider = NoProvider
  /\ origins = <<>>
  /\ destinations = <<>>
  /\ batch_i = 0
  /\ batch_j = 0
  /\ batch_num = 0
  /\ row_data = <<>>
  /\ all_rows = <<>>
  /\ log = <<>>
  /\ exc = ""
  /\ google_matrix = NoResponse
  /\ route_indices = <<>>
  /\ result = NoResult

NextTotals ==
  \/ CalculateRouteTotals
  \/ CalculateSegmentTotals

SpecTotals == InitTotals /\ [][NextTotals]_vars

\* ======================================================= claims, SpecOpt
AllFinite(m) ==
  \A i \in 0..(Size(m) - 1) : \A j \in 0..(Size(m) - 1) : Distance(m, i, j) >= 0
\* r is a tour of the n locations from and to s: length n + 1, s first and
\* last, every other index exactly once
IsTour(r, n, s) ==
  /\ Len(r) = n + 1
  /\ r[1] = s
  /\ Last(r) = s
  /\ \A k \in (0..(n - 1)) \ {s} : Count(r, k) = 1

\* C1: for every matrix of the data model (finite weights or the infinity
\* sentinel) and every start, nearest_neighbor(start) returns a sequence of
\* length N+1 that starts and ends with start and holds every other index
\* exactly once.
C1_NearestNeighborIsTour ==
  pc = "nn_return" => IsTour(nn_out, Size(dm), start_idx)

\* C3: on a matrix with only finite weights (symmetric or not) the total
\* distance of two_opt(nearest_neighbor(start)) is at most the total distance
\* of nearest_neighbor(start).
C3_TwoOptNeverWorse ==
  (/\ Len(runs) >= 1
   /\ max_iterations = DefaultMaxIterations
   /\ AllFinite(dm))
  => CalculateRouteDistance(dm, runs[1].output) <= CalculateRouteDistance(dm, nn_out)

\* C4: when two_opt ended CONVERGED (a full pass found no improving pair, not
\* the iteration cap), two_opt on its own output returns the same route, with
\* the same total distance.
C4_TwoOptIdempotentAtConvergence ==
  (Len(runs) = 2 /\ runs[1].term = "CONVERGED")
  => /\ runs[2].input = runs[1].output
     /\ runs[2].output = runs[1].output
     /\ CalculateRouteDistance(dm, runs[2].output)
          = CalculateRouteDistance(dm, runs[1].output)
\* a converged first call that did change the route, followed by the second call
C4_Witness ==
  /\ Len(runs) = 2
  /\ runs[1].term = "CONVERGED"
  /\ runs[1].output /= runs[1].input
  /\ runs[1].passes >= 3

\* ========================================================== claims, Spec
Batched == Len(origins) * Len(destinations) > ElementCap
InOptimizeRoute == caller = "optimize_route"
Returned == pc = "done"

\* C2: whenever optimize_route returns a result whose error is null (the
\* provider's responses all have top-level status OK, failed elements
\* allowed), route_indices has length N+1, starts and ends with 0 and holds
\* each index 1..N-1 exactly once.
C2_OptimizeRouteIsTour ==
  (/\ InOptimizeRoute
   /\ Returned
   /\ provider.fault = NoFault
   /\ result.error = NoneValue)
  => IsTour(result.route_indices, Len(addresses) + 1, 0)

\* C5: with the mock provider, the table reassembled from block requests has
\* one row per origin and one element per destination in every row, and its
\* element at (r, c) is the one a single direct call over the whole lists
\* returns for origin r and destination c.
C5_BatchedEqualsDirect ==
  (/\ google_matrix /= NoResponse
   /\ Batched
   /\ provider.fault = NoFault)
  => /\ google_matrix.status = "OK"
     /\ Len(google_matrix.rows) = Len(origins)
     /\ \A r \in DOMAIN google_matrix.rows :
          Len(google_matrix.rows[r].elements) = Len(destinations)
     /\ google_matrix.rows
          = MockRows(provider.seed, provider.failed, origins, destinations)
\* a table reassembled from three origin blocks and three destination blocks
C5_Witness ==
  /\ google_matrix /= NoResponse
  /\ provider.fault = NoFault
  /\ Len(origins) > 2 * MAX_BATCH_SIZE
  /\ Len(destinations) > 2 * MAX_BATCH_SIZE
  /\ batch_num = 9

\* C6: every request sent to the provider, direct or batched, for any list
\* lengths, carries at most 100 elements (origins x destinations).
C6_RequestsWithinCap ==
  \A k \in DOMAIN log :
     log[k].ev = "request"
       => Len(log[k].origins) * Len(log[k].destinations) <= ElementCap
\* a batched call that sent a full block of 100 elements and a last, smaller one
C6_Witness ==
  /\ pc = "gdm_return"
  /\ Batched
  /\ \E k \in DOMAIN log :
       log[k].ev = "request" /\ Len(log[k].origins) * Len(log[k].destinations) = ElementCap
  /\ \E k \in DOMAIN log :
       log[k].ev = "request" /\ Len(log[k].origins) * Len(log[k].destinations) = 1

\* C7: an element whose status is not OK is the infinity sentinel in the
\* distance and in the duration table at exactly its (row, column); every
\* other cell has the provider's value; and optimize_route neither raises nor
\* returns an error because of it.
C7_FailedElementIsInfinity ==
  (InOptimizeRoute /\ provider.fault = NoFault)
  => /\ pc /= "raised"
     /\ dm /= NoMatrix =>
          /\ Size(dm) = Len(addresses) + 1
          /\ \A r \in 0..Len(addresses) : \A c \in 0..Len(addresses) :
               IF <<r, c>> \in provider.failed
               THEN Distance(dm, r, c) = Inf /\ Duration(dm, r, c) = Inf
               ELSE /\ Distance(dm, r, c) = MockDistance(provider.seed, r, c)
                    /\ Duration(dm, r, c) = MockDuration(r, c)
     /\ (Returned /\ addresses /= <<>>) => result.error = NoneValue
\* a returned optimization of a batched table with one failed element
C7_Witness ==
  /\ InOptimizeRoute
  /\ Returned
  /\ Batched
  /\ result.error = NoneValue
  /\ \E c \in provider.failed : c[1] /= c[2] /\ Distance(dm, c[1], c[2]) = Inf

\* C8: if the provider answers a request of the acquisition (the direct call
\* or any one block request) with a top-level status other than OK,
\* optimize_route returns a result with a non-empty error and an empty route.
C8_TopLevelStatusIsError ==
  (/\ InOptimizeRoute
   /\ provider.fault.kind = "status"
   /\ pc \in {"done", "raised"})
  => /\ Returned
     /\ NonEmptyString(result.error)
     /\ result.route = <<>>

\* C9: if a provider request fails with a transport exception (the direct
\* call or the k-th block request), optimize_route does not raise: it returns
\* a non-empty error, an empty route and zero totals, and no matrix and no
\* route is ever built from the rows of earlier block requests.
C9_TransportFailureIsStructuredError ==
  (InOptimizeRoute /\ provider.fault.kind = "transport")
  => /\ pc /= "raised"
     /\ google_matrix = NoResponse
     /\ dm = NoMatrix
     /\ nn_out = <<>>
     /\ route_indices = <<>>
     /\ Returned =>
          /\ NonEmptyString(result.error)
          /\ result.route = <<>>
          /\ result.total_distance = 0
          /\ result.total_duration = 0
\* the third block request failed after a whole origin block had been stored
C9_Witness ==
  /\ InOptimizeRoute
  /\ Returned
  /\ provider.fault.kind = "transport"
  /\ provider.fault.at = 3
  /\ all_rows /= <<>>

\* C10: optimize_route with an empty address list returns a non-empty error,
\* an empty route and zero totals, and issues no provider request.
C10_EmptyAddressesShortCircuit ==
  (InOptimizeRoute /\ addresses = <<>>)
  => /\ log = <<>>
     /\ pc \in {"or_begin", "done"}
     /\ Returned =>
          /\ NonEmptyString(result.error)
          /\ result.route = <<>>
          /\ result.total_distance = 0
          /\ result.total_duration = 0
C10_Witness ==
  /\ InOptimizeRoute
  /\ addresses = <<>>
  /\ Returned

\* ===================================================== claims, SpecLinks
\* what a link says: the first part is its origin, the last its destination
\* and the parts between them are its waypoints
UrlOrigin(u) == Head(u.parts)
UrlDestination(u) == Last(u.parts)
UrlWaypoints(u) == SubSeq(u.parts, 2, Len(u.parts) - 1)
QuoteAll(s) == [k \in DOMAIN s |-> Quote(s[k])]
\* waypoints followed by destination, over the links from number k on
RECURSIVE LegsFrom(_, _)
LegsFrom(links, k) ==
  IF k > Len(links) THEN <<>>
  ELSE UrlWaypoints(links[k]) \o <<UrlDestination(links[k])>> \o LegsFrom(links, k + 1)
LinksReturned == pc = "done" /\ returned /= NotReturned

\* C11: for every stop list longer than W (= 9), the destination of every
\* link before the last one is the origin of the link after it.
C11_AdjacentLinksShareBoundary ==
  Len(formatted_addresses) > MAX_WAYPOINTS
  => \A k \in 1..(Len(opened) - 1) :
       UrlDestination(opened[k]) = UrlOrigin(opened[k + 1])
\* four links over pairwise different stops: three boundaries, none the depot
C11_Witness ==
  /\ LinksReturned
  /\ Len(opened) = 4
  /\ \A k \in 1..3 : /\ UrlDestination(opened[k]) = UrlOrigin(opened[k + 1])
                     /\ UrlDestination(opened[k]) /= Quote(FixedStart)
  /\ \A i \in DOMAIN formatted_addresses : \A j \in DOMAIN formatted_addresses :
       formatted_addresses[i] = formatted_addresses[j] => i = j

\* C12: for every stop list s1..sS, S >= 1, the emitted links in order are the
\* tour depot, s1, ..., sS, depot: the first link starts at the depot, and the
\* waypoints and destination of all links, one link after the other, are
\* s1, ..., sS followed by the depot.
C12_LinksDescribeTheTour ==
  (LinksReturned /\ Len(formatted_addresses) >= 1)
  => /\ UrlOrigin(opened[1]) = Quote(FixedStart)
     /\ LegsFrom(opened, 1) = QuoteAll(formatted_addresses) \o <<Quote(FixedStart)>>
\* three links, returned as the list of the links that were opened
C12_Witness ==
  /\ LinksReturned
  /\ returned.kind = "list"
  /\ returned.value = opened
  /\ Len(opened) = 3
  /\ Len(LegsFrom(opened, 1)) = Len(formatted_addresses) + 1

\* C13: no emitted link has more than W (= 9) waypoints between its origin and
\* its destination, for any number of stops.
C13_WaypointsWithinCap ==
  \A k \in DOMAIN opened : Len(UrlWaypoints(opened[k])) <= MAX_WAYPOINTS
\* more than two full chunks, and a last link with exactly W waypoints
C13_Witness ==
  /\ LinksReturned
  /\ Len(formatted_addresses) = 3 * MAX_WAYPOINTS
  /\ Len(UrlWaypoints(Last(opened))) = MAX_WAYPOINTS

\* C14: when there are at most W (= 9) stops, exactly one link is emitted: its
\* origin is the depot, its waypoints are the whole stop list in order and
\* its destination is the depot.
C14_SingleLinkWithinCap ==
  (LinksReturned /\ Len(formatted_addresses) <= MAX_WAYPOINTS)
  => /\ Len(opened) = 1
     /\ returned.value = opened[1]
     /\ UrlOrigin(opened[1]) = Quote(FixedStart)
     /\ UrlWaypoints(opened[1]) = QuoteAll(formatted_addresses)
     /\ UrlDestination(opened[1]) = Quote(FixedStart)
\* exactly W stops in one link
C14_Witness ==
  /\ LinksReturned
  /\ Len(formatted_addresses) = MAX_WAYPOINTS
  /\ Len(opened) = 1
  /\ Len(UrlWaypoints(opened[1])) = MAX_WAYPOINTS

\* the stops number a..b of the list, quoted
QuotedStops(a, b) == QuoteAll(SubSeq(formatted_addresses, a, b))
\* C15: for 11 stops and W = 9 exactly 2 links are emitted; link 1 starts at
\* the depot, has the stops 1..8 as its 8 waypoints and stop 9 as its
\* destination; link 2 starts at stop 9, has the remaining stops 10 and 11 as
\* waypoints and ends at the depot.
C15_ElevenStopsTwoLinks ==
  (LinksReturned /\ Len(formatted_addresses) = 11)
  => /\ Len(opened) = 2
     /\ UrlOrigin(opened[1]) = Quote(FixedStart)
     /\ UrlWaypoints(opened[1]) = QuotedStops(1, 8)
     /\ UrlDestination(opened[1]) = Quote(formatted_addresses[9])
     /\ UrlOrigin(opened[2]) = Quote(formatted_addresses[9])
     /\ UrlWaypoints(opened[2]) = QuotedStops(10, 11)
     /\ UrlDestination(opened[2]) = Quote(FixedStart)
\* 11 stops in the given order, both links opened and returned
C15_Witness ==
  /\ LinksReturned
  /\ ~optimize
  /\ Len(formatted_addresses) = 11
  /\ Len(returned.value) = 2
\* C15 as stated: link 1 has 9 waypoints, and stop 9 is its destination
C15_AsStated ==
  (LinksReturned /\ Len(formatted_addresses) = 11)
  => /\ Len(opened) = 2
     /\ Len(UrlWaypoints(opened[1])) = 9
     /\ UrlDestination(opened[1]) = Quote(formatted_addresses[9])
     /\ UrlOrigin(opened[2]) = Quote(formatted_addresses[9])
     /\ UrlWaypoints(opened[2]) = QuotedStops(10, 11)
     /\ UrlDestination(opened[2]) = Quote(FixedStart)

\* ================================================= claims, Spec (continued)
Succeeded == InOptimizeRoute /\ Returned /\ result.error = NoneValue

\* C16: in a successful result the entry at every position p of route is
\* marked is_start exactly when route_indices[p] is 0; every other entry
\* carries the formatted address and the original record of input address
\* number route_indices[p] - 1; num_stops is the number of input addresses;
\* and the caller's address list is the same after the call as before.
C16_RouteAssembly ==
  /\ InOptimizeRoute => addresses = Addresses(Len(addresses))
  /\ Succeeded =>
       /\ Len(result.route) = Len(result.route_indices)
       /\ \A p \in DOMAIN result.route :
            LET idx == result.route_indices[p]
                stop == result.route[p]
            IN /\ stop.is_start <=> idx = 0
               /\ idx /= 0 =>
                    /\ stop.address = FormatAddressForApi(Addresses(Len(addresses))[idx])
                    /\ stop.original_data = Addresses(Len(addresses))[idx]
       /\ result.num_stops = Len(addresses)
\* a batched optimization that returned the addresses in another order than given
C16_Witness ==
  /\ Succeeded
  /\ Batched
  /\ IsTour(result.route_indices, Len(addresses) + 1, 0)
  /\ \E p \in DOMAIN result.route :
       /\ ~result.route[p].is_start
       /\ result.route[p].original_data /= addresses[p - 1]

\* a weight that is a number
IsFinite(w) == w >= 0
\* a path over finite weights from cur through every location of rest and back
\* to the depot
RECURSIVE FinitePathHome(_, _, _)
FinitePathHome(m, cur, rest) ==
  IF rest = {} THEN IsFinite(Distance(m, cur, 0))
  ELSE \E j \in rest : IsFinite(Distance(m, cur, j)) /\ FinitePathHome(m, j, rest \ {j})
\* some tour from and to the depot over all locations has only finite weights
\* (a location without a finite way in or out rules that out at once)
FeasibleTourExists(m) ==
  \/ Size(m) <= 1
  \/ /\ \A j \in 0..(Size(m) - 1) :
          /\ \E i \in (0..(Size(m) - 1)) \ {j} : IsFinite(Distance(m, i, j))
          /\ \E i \in (0..(Size(m) - 1)) \ {j} : IsFinite(Distance(m, j, i))
     /\ FinitePathHome(m, 0, 1..(Size(m) - 1))

\* C17: if every tour that starts and ends at the depot and visits all
\* locations has to use a pair of infinite weight (one location is unreachable
\* from every other location, say), the total distance optimize_route reports
\* is infinite, never a finite number.
C17_InfeasibleTotalIsInfinite ==
  (Succeeded /\ ~FeasibleTourExists(dm)) => result.total_distance = Inf

\* ==================================================== claims, SpecTotals
\* C18: for every index sequence r and every split position p,
\* calculate_route_distance(r) is calculate_route_distance(r[0..p]) plus
\* calculate_route_distance(r[p..end]), the two sub-segments sharing r[p]; the
\* same holds for calculate_route_duration, and for any number of contiguous
\* sub-segments that cover r.
C18_TotalsAreAdditive ==
  (caller = "totals" /\ pc = "done")
  => /\ FSum(totals.segment_distances) = totals.distance
     /\ FSum(totals.segment_durations) = totals.duration
\* a route with a repeated node cut into three sub-segments, with a finite
\* total; and the same for a total that is infinite
C18_Witness ==
  /\ caller = "totals" /\ pc = "done"
  /\ Len(segments) = 3
  /\ \A k \in DOMAIN segments : Len(segments[k]) >= 2
  /\ \E i \in DOMAIN route : \E j \in DOMAIN route : i /= j /\ route[i] = route[j]
  /\ totals.distance > 0
  /\ totals.duration > 0
C18_WitnessInfinite ==
  /\ caller = "totals" /\ pc = "done"
  /\ Len(segments) = 2
  /\ totals.distance = Inf
  /\ Inf \in {totals.segment_distances[k] : k \in DOMAIN segments}
  /\ \E k \in DOMAIN segments : totals.segment_distances[k] > 0

\* ------------------------------------- claims, Spec: the order of requests
IsRequest(e) == e.ev = "request"
Requests == SelectSeq(log, IsRequest)
\* block number b (from 0) of the list s
Block(s, b) ==
  SubSeq(s, b * MAX_BATCH_SIZE + 1,
         IF (b + 1) * MAX_BATCH_SIZE < Len(s) THEN (b + 1) * MAX_BATCH_SIZE ELSE Len(s))
BlockCount(s) == (Len(s) + MAX_BATCH_SIZE - 1) \div MAX_BATCH_SIZE
\* one request per (origin block, destination block), row-major
RowMajorRequests ==
  [k \in 1..(BlockCount(origins) * BlockCount(destinations)) |->
     RequestEvent(Block(origins, (k - 1) \div BlockCount(destinations)),
                  Block(destinations, (k - 1) % BlockCount(destinations)))]
IsPrefix(s, t) == Len(s) <= Len(t) /\ s = SubSeq(t, 1, Len(s))

\* C19: in a batched round a delay of at least 200 ms lies between every two
\* consecutive provider requests: request k+1 is not issued before the delay
\* after request k has elapsed.
C19_DelayBetweenRequests ==
  Batched =>
    \A k \in DOMAIN log :
       (k > 1 /\ log[k].ev = "request")
         => log[k - 1].ev = "sleep" /\ log[k - 1].ms >= 200
\* a finished round of nine requests with the eight delays between them
C19_Witness ==
  /\ pc = "gdm_return"
  /\ Batched
  /\ Len(Requests) = 9
  /\ Len(log) = 17
  /\ log[16].ev = "sleep"

\* C20: when N*N exceeds 100, get_distance_matrix issues exactly one request
\* per (origin block, destination block), one at a time and row-major: all
\* destination blocks of origin block 0 in increasing order, then those of
\* origin block 1, and so on; no block pair is requested twice and no row is
\* appended to the reassembled table more than once.  When N*N is at most 100
\* exactly one request is issued.
C20_RowMajorBlockOrder ==
  /\ Batched =>
       /\ IsPrefix(Requests, RowMajorRequests)
       /\ \A i \in DOMAIN Requests : \A j \in DOMAIN Requests :
            Requests[i] = Requests[j] => i = j
       /\ pc = "gdm_return" =>
            /\ Requests = RowMajorRequests
            /\ provider.fault = NoFault =>
                 /\ Len(google_matrix.rows) = Len(origins)
                 /\ \A i \in DOMAIN google_matrix.rows :
                      \A j \in DOMAIN google_matrix.rows :
                         google_matrix.rows[i] = google_matrix.rows[j] => i = j
  /\ ~Batched =>
       /\ Len(Requests) <= 1
       /\ pc = "gdm_return" => Requests = <<RequestEvent(origins, destinations)>>
\* three origin blocks and two destination blocks, the last blocks shorter
C20_Witness ==
  /\ pc = "gdm_return"
  /\ Len(origins) > 2 * MAX_BATCH_SIZE
  /\ Len(destinations) > MAX_BATCH_SIZE
  /\ Len(destinations) < 2 * MAX_BATCH_SIZE
  /\ Len(Requests) = 6
  /\ Len(Requests[6].origins) = 1



\* C29: for every matrix (asymmetric ones and every location count included)
\* the route_indices produced by optimize_route(addresses, use_two_opt) equal
\* what RouteOptimizer.optimize(0, use_two_opt) returns on the same matrix; in
\* particular with exactly 3 locations (2 addresses) the pipeline applies
\* 2-opt no more than optimize does.
C29_PipelineEqualsOptimize ==
  Succeeded =>
    /\ result.route_indices =
         (IF use_two_opt /\ Size(dm) >= 4 THEN Last(runs).output ELSE nn_out)
    /\ (Size(dm) = 3 /\ ~(use_two_opt /\ Size(dm) >= 4)) => runs = <<>>
\* with at least 4 locations, or without 2-opt, the pipeline returns what
\* optimize returns
C29_EqualFromFourLocations ==
  (Succeeded /\ (Size(dm) >= 4 \/ ~use_two_opt \/ Size(dm) <= 2)) =>
    result.route_indices =
      (IF use_two_opt /\ Size(dm) >= 4 THEN Last(runs).output ELSE nn_out)
\* with 3 locations the pipeline returned a route other than the
\* nearest-neighbor route that optimize returns
C29_WitnessThreeLocations ==
  /\ Succeeded
  /\ Size(dm) = 3
  /\ use_two_opt
  /\ Len(runs) = 1
  /\ result.route_indices /= nn_out
\* ========================================================== claims C21, C22, SpecLinks
OpenRouteRaised == caller = "open_route_in_browser" /\ pc = "raised"
\* optimize_route returned a result with an error to open_route_in_browser
OptimizationResultHasError == optimize /\ result /= NoResult /\ result.error /= NoneValue

\* C21: open_route_in_browser raises only for an empty address list or, when
\* optimization is requested, for an optimization result carrying an error; in
\* every execution in which it raises, no link has been opened, and for every
\* non-empty address list with optimize=false it does not raise.
C21_RaisesOnlyForEmptyOrErrorResult ==
  OpenRouteRaised =>
    /\ NoAddresses(addresses) \/ OptimizationResultHasError
    /\ opened = <<>>
\* the two parts of C21 that do not depend on what optimize_route can raise:
\* no link has been opened in a call that raised, and a non-empty list with
\* optimize=false never raises
C21_NoLinkWhenRaisedAndPlainOrderNeverRaises ==
  /\ OpenRouteRaised => opened = <<>>
  /\ (OpenRouteRaised /\ ~optimize) => NoAddresses(addresses)
\* the call raised for a result with an error
C21_WitnessErrorResult ==
  /\ OpenRouteRaised
  /\ OptimizationResultHasError
  /\ opened = <<>>
\* the call raised although the list is not empty and no result was returned
C21_WitnessUncaught ==
  /\ OpenRouteRaised
  /\ ~NoAddresses(addresses)
  /\ result = NoResult

LinksOpened == caller = "open_route_in_browser" /\ pc = "done"
\* C22: when more than one link is produced, open_route_in_browser opens the
\* links one per chunk in increasing chunk order and returns them as a list in
\* that same order; when one link is produced it is opened once and returned
\* as a single value.
C22_OpenedAndReturnedInChunkOrder ==
  /\ pc = "orb_chunk" =>
       /\ Len(opened) = chunk_idx
       /\ \A k \in 1..Len(opened) :
            opened[k] = CreateGoogleMapsUrl(chunks[k], k = 1, k = Len(chunks),
                                            IF k = 1 THEN NoneValue
                                            ELSE Last(chunks[k - 1]))
  /\ LinksOpened =>
       IF Len(formatted_addresses) > 9
       THEN /\ returned.kind = "list"
            /\ Len(chunks) > 1
            /\ Len(opened) = Len(chunks)
            /\ returned.value = opened
            /\ \A k \in 1..Len(chunks) :
                 opened[k] = CreateGoogleMapsUrl(chunks[k], k = 1, k = Len(chunks),
                                                 IF k = 1 THEN NoneValue
                                                 ELSE Last(chunks[k - 1]))
       ELSE /\ returned.kind = "single"
            /\ opened = <<returned.value>>
\* four links were opened and returned, all different
C22_Witness ==
  /\ LinksOpened
  /\ returned.kind = "list"
  /\ Len(opened) = 4
  /\ \A j \in 1..4 : \A k \in 1..4 : j /= k => opened[j] /= opened[k]
\* one link was opened and returned
C22_WitnessSingle ==
  /\ LinksOpened
  /\ returned.kind = "single"
  /\ Len(opened) = 1
  /\ Len(formatted_addresses) = 9
\* ========================================================== claims C23..C30, SpecOpt
OptimizeReturned == caller = "optimize" /\ pc = "done"

\* C23: optimize(start, use_two_opt) returns two_opt(nearest_neighbor(start))
\* when use_two_opt is true and the matrix has at least 4 locations, and
\* returns nearest_neighbor(start) unchanged when use_two_opt is false or the
\* matrix has fewer than 4 locations.
C23_OptimizeComposes ==
  OptimizeReturned =>
    IF use_two_opt /\ Size(dm) >= 4
    THEN /\ Len(runs) = 1
         /\ runs[1].input = nn_out
         /\ optimize_out = runs[1].output
    ELSE /\ runs = <<>>
         /\ optimize_out = nn_out
\* optimize returned what two_opt made of a nearest-neighbor route it changed
C23_Witness ==
  /\ OptimizeReturned
  /\ use_two_opt /\ Size(dm) >= 4
  /\ optimize_out /= nn_out
\* optimize on 3 locations with use_two_opt set returned the nearest-neighbor route
C23_WitnessSkipped ==
  /\ OptimizeReturned
  /\ use_two_opt /\ Size(dm) = 3
  /\ optimize_out = nn_out /\ Len(nn_out) = 4

ExampleRun == caller = "api" /\ dm = ExampleMatrix /\ start_idx = 0
\* the pairs one pass over a route of n positions scans
PairsOf(n) == {p \in (1..(n - 3)) \X (2..(n - 2)) : p[1] < p[2]}

\* C24: on the 4-node symmetric matrix d(0,1)=10, d(0,2)=50, d(0,3)=20,
\* d(1,2)=15, d(1,3)=35, d(2,3)=25, nearest_neighbor(0) returns [0,1,2,3,0]
\* with total distance 70, and two_opt on that route finds no pair with
\* positive gain and returns it unchanged.
C24_ExampleRoute ==
  ExampleRun =>
    /\ pc \in {"nn_return", "two_opt_begin", "two_opt_loop", "two_opt_return", "done"}
         => /\ nn_out = <<0, 1, 2, 3, 0>>
            /\ CalculateRouteDistance(dm, nn_out) = 70
    /\ pc = "two_opt_loop" => route = <<0, 1, 2, 3, 0>>
    /\ Len(runs) >= 1
         => /\ runs[1].input = <<0, 1, 2, 3, 0>>
            /\ runs[1].output = <<0, 1, 2, 3, 0>>
            /\ runs[1].term = "CONVERGED"
            /\ runs[1].passes = 1
\* two_opt has returned on the example's nearest-neighbor route
C24_Witness ==
  /\ ExampleRun
  /\ pc = "two_opt_return"
  /\ Len(runs) = 1
  /\ runs[1].output = <<0, 1, 2, 3, 0>>
  /\ \A p \in PairsOf(5) : ~FPositive(TwoOptGain(dm, nn_out, p[1], p[2]))

\* the indexes not yet in the sequence r, of a table of n locations
UnvisitedOf(r, n) == {j \in 0..(n - 1) : \A p \in DOMAIN r : r[p] /= j}
\* j is at minimum distance from cur among the indexes of the set un
IsArgMin(m, cur, j, un) ==
  \A k \in un :
    \/ Distance(m, cur, k) = Inf
    \/ (Distance(m, cur, j) /= Inf /\ Distance(m, cur, j) <= Distance(m, cur, k))
\* position p of the route under construction holds an index that was, when
\* it was appended, unvisited, at minimum distance from the index before it,
\* and the lowest of the unvisited indexes at that distance
AppendedIsNearest(m, r, p) ==
  LET before == SubSeq(r, 1, p - 1)
      un == UnvisitedOf(before, Size(m))
      cur == r[p - 1]
  IN /\ r[p] \in un
     /\ IsArgMin(m, cur, r[p], un)
     /\ \A k \in un : Distance(m, cur, k) = Distance(m, cur, r[p]) => r[p] <= k

\* C25: at every construction step of nearest_neighbor, the index appended is
\* an unvisited index j that minimises distance(current, j) over all unvisited
\* indices, and among several unvisited indices at that same minimum distance
\* it is the lowest index.
C25_AppendsLowestNearest ==
  pc = "nn_loop" => \A p \in 2..Len(route) : AppendedIsNearest(dm, route, p)
\* a step appended an index while another unvisited index was at the same
\* distance from the current one
C25_Witness ==
  /\ pc = "nn_loop"
  /\ Len(route) >= 2
  /\ \E k \in UnvisitedOf(SubSeq(route, 1, Len(route) - 1), Size(dm)) :
       /\ k /= Last(route)
       /\ Distance(dm, route[Len(route) - 1], k) /= Inf
       /\ Distance(dm, route[Len(route) - 1], k)
            = Distance(dm, route[Len(route) - 1], Last(route))

\* (dist(a,b) + dist(c,d)) - (dist(a,c) + dist(b,d)) > 0 for the pair (i, j) of
\* the route r, on weights that are numbers or inf
GainIsPositive(m, r, i, j) ==
  LET ab == Distance(m, At(r, i - 1), At(r, i))
      cd == Distance(m, At(r, j), At(r, j + 1))
      ac == Distance(m, At(r, i - 1), At(r, j))
      bd == Distance(m, At(r, i), At(r, j + 1))
  IN IF ac = Inf \/ bd = Inf THEN FALSE
     ELSE IF ab = Inf \/ cd = Inf THEN TRUE
     ELSE ab + cd > ac + bd
PositivePairs(m, r) == {p \in PairsOf(Len(r)) : GainIsPositive(m, r, p[1], p[2])}
\* p comes before q in the order i = 1..n-3, and for each i, j = i+1..n-2
ScansBefore(p, q) == p[1] < q[1] \/ (p[1] = q[1] /\ p[2] <= q[2])
FirstPositivePair(m, r) ==
  CHOOSE p \in PositivePairs(m, r) : \A q \in PositivePairs(m, r) : ScansBefore(p, q)
\* s is r with exactly the positions i..j reversed
ReversedBetween(r, s, i, j) ==
  /\ Len(s) = Len(r)
  /\ \A p \in 0..(Len(r) - 1) :
       At(s, p) = IF i <= p /\ p <= j THEN At(r, i + j - p) ELSE At(r, p)
ScanPass == pc = "two_opt_loop" /\ pc' = "two_opt_loop" /\ iterations' /= iterations

\* C26: in every scan pass of two_opt over a route of n positions, the pair
\* accepted is the first pair (i, j) in the order i = 1..n-3, and for each i,
\* j = i+1..n-2, whose gain (dist(a,b)+dist(c,d)) - (dist(a,c)+dist(b,d)) is
\* strictly positive; exactly the positions i..j are reversed, at most one
\* reversal is applied per pass, and the next pass starts again from i = 1.
C26_FirstImprovementPass ==
  [][ScanPass =>
       /\ iterations' = iterations + 1
       /\ IF PositivePairs(dm, route) = {}
          THEN route' = route /\ ~improved'
          ELSE /\ ReversedBetween(route, route', FirstPositivePair(dm, route)[1],
                                  FirstPositivePair(dm, route)[2])
               /\ improved']_vars
\* a pass has accepted a pair, and the first pair with positive gain of the
\* route it left is not the first pair of the scan order: the next pass starts
\* from i = 1 again and passes over pairs without positive gain
C26_Witness ==
  /\ pc = "two_opt_loop"
  /\ iterations >= 1 /\ improved /\ iterations < max_iterations
  /\ route /= initial_route
  /\ PositivePairs(dm, route) /= {}
  /\ FirstPositivePair(dm, route)[1] >= 2

InTwoOpt == pc \in {"two_opt_begin", "two_opt_loop"}
\* what a finished call of two_opt recorded is one of the two terminal states
\* of the loop, or the return of line 192 for a route of fewer than 4 positions
TerminalOk(run, cap) ==
  /\ run.passes <= cap
  /\ \/ /\ run.term = "CONVERGED"
        /\ run.passes >= 1
        /\ PositivePairs(dm, run.output) = {}
     \/ /\ run.term = "MAX_ITER"
        /\ run.passes = cap
     \/ /\ run.term = "SHORT"
        /\ Len(run.input) < 4
        /\ run.passes = 0
C27_Bounded ==
  /\ pc = "two_opt_loop" => iterations <= max_iterations
  /\ \A k \in DOMAIN runs : TerminalOk(runs[k], max_iterations)
  /\ caller = "two_opt" => pc /= "raised"

C27_WitnessConverged ==
  /\ pc = "two_opt_return" /\ caller = "two_opt"
  /\ Last(runs).term = "CONVERGED"
  /\ Last(runs).passes >= 3

Symmetric(m) ==
  \A i \in 0..(Size(m) - 1) : \A j \in 0..(Size(m) - 1) :
    Distance(m, i, j) = Distance(m, j, i)
\* (dist(a,b) + dist(c,d)) - (dist(a,c) + dist(b,d)) on finite weights
GainValue(m, r, i, j) ==
  (Distance(m, At(r, i - 1), At(r, i)) + Distance(m, At(r, j), At(r, j + 1)))
  - (Distance(m, At(r, i - 1), At(r, j)) + Distance(m, At(r, i), At(r, j + 1)))
RECURSIVE Factorial(_)
Factorial(k) == IF k <= 1 THEN 1 ELSE k * Factorial(k - 1)
\* the number of orders of the interior positions of a route of n positions
DistinctTours(n) == Factorial(n - 2)
SymmetricFinite == Symmetric(dm) /\ AllFinite(dm)

C28_WitnessLarger ==
  /\ ~Symmetric(dm) /\ AllFinite(dm)
  /\ pc = "two_opt_return"
  /\ Last(runs).passes = 1 /\ Last(runs).term = "MAX_ITER"
  /\ CalculateRouteDistance(dm, Last(runs).output)
       > CalculateRouteDistance(dm, Last(runs).input)
\* on an asymmetric finite table the one reversal of a call left the total unchanged
C28_WitnessUnchanged ==
  /\ ~Symmetric(dm) /\ AllFinite(dm)
  /\ pc = "two_opt_return"
  /\ Last(runs).passes = 1 /\ Last(runs).term = "MAX_ITER"
  /\ Last(runs).output /= Last(runs).input
  /\ CalculateRouteDistance(dm, Last(runs).output)
       = CalculateRouteDistance(dm, Last(runs).input)

\* every value occurs as often in s as in r
SameMultiset(r, s) ==
  \A x \in {r[p] : p \in DOMAIN r} \cup {s[p] : p \in DOMAIN s} : Count(r, x) = Count(s, x)
\* s has the length, the first and last entries and the entries of r
KeepsShape(r, s) ==
  /\ Len(s) = Len(r)
  /\ Len(r) >= 1 => (s[1] = r[1] /\ Last(s) = Last(r))
  /\ SameMultiset(r, s)

\* C30: for every input sequence and every matrix, in every intermediate state
\* and in the result of two_opt the route has the same length as the input,
\* the same first and last entries, and the same multiset of entries (only
\* interior positions 1..n-2 are ever permuted); the caller's input list
\* itself is never modified.
C30_TwoOptKeepsShape ==
  /\ [](pc = "two_opt_loop" => KeepsShape(initial_route, route))
  /\ [](\A k \in DOMAIN runs : KeepsShape(runs[k].input, runs[k].output))
  /\ [](pc = "two_opt_return" => Last(runs).input = initial_route)
  /\ [][InTwoOpt => (initial_route' = initial_route)]_vars
\* a call on a sequence with a repeated entry returned another order of it
C30_Witness ==
  /\ pc = "two_opt_return" /\ caller = "two_opt"
  /\ Last(runs).output /= Last(runs).input
  /\ Len(Last(runs).input) = MaxInputLen
  /\ \E x \in 0..(SequenceLocs - 1) : Count(Last(runs).input, x) >= 2
  /\ Last(runs).input[1] /= Last(Last(runs).input)

====
